---------------------------- MODULE Spec2Model ----------------------------
(***************************************************************************)
(* Model of src/app.py: the statement pipeline process_pdf ->              *)
(* create_summary -> create_daily_totals -> create_monthly_totals ->       *)
(* spreadsheet, and the request handler upload_file around it.             *)
(*                                                                         *)
(* Representation of values                                                *)
(*   text                a non-empty tuple of one-character strings        *)
(*   NaN / None / NaT    the empty tuple                                   *)
(*   float64             <<n, d>>: the exact rational n/d in lowest terms   *)
(*                       with d > 0; <<1,0>> is +inf and <<-1,0>> is -inf   *)
(*                       (IEEE rounding is not modelled)                   *)
(*   Timestamp           <<year, month, day>>                              *)
(*   DataFrame           [columns |-> tuple of names, rows |-> tuple of    *)
(*                       functions from the column names to values]        *)
(***************************************************************************)
EXTENDS Integers, Sequences, FiniteSets, TLC

VARIABLES
    pc,                 \* position of the running function
    request,            \* the upload: [has_file, filename]
    tables,             \* what tabula.read_pdf returns for the staged PDF
    df,                 \* the ledger object shared by the pipeline steps
    ledger0,            \* the ledger as process_pdf returned it
    summary_df,
    daily_totals_df,
    monthly_totals_df,
    sheets,             \* what was written to the workbook
    fs,                 \* files present in UPLOAD_FOLDER
    staged,             \* file.save(pdf_path) completed
    exc,                \* the exception raised inside the try block, if any
    response            \* what upload_file handed back to Flask

vars == <<pc, request, tables, df, ledger0, summary_df, daily_totals_df,
          monthly_totals_df, sheets, fs, staged, exc, response>>

---------------------------------------------------------------------------
(* Bounds of the model *)

MaxTables == 2
MaxRows == 2
MaxLedger == 3

---------------------------------------------------------------------------
(* Generic helpers *)

NaN == <<>>

Range(s) == {s[i] : i \in 1..Len(s)}

Abs(n) == IF n < 0 THEN -n ELSE n

Sign(n) == IF n < 0 THEN -1 ELSE IF n > 0 THEN 1 ELSE 0

RECURSIVE GCD(_, _)
GCD(a, b) == IF b = 0 THEN a ELSE GCD(b, a % b)

RECURSIVE Pow10(_)
Pow10(k) == IF k = 0 THEN 1 ELSE 10 * Pow10(k - 1)

(* All orderings of the indices 1..n *)
Perms(n) == {p \in [1..n -> 1..n] : \A i, j \in 1..n : i # j => p[i] # p[j]}

---------------------------------------------------------------------------
(* float64 arithmetic as pandas/numpy perform it on exact values *)

Frac(n, d) ==
    IF d = 0
    THEN IF n = 0 THEN NaN ELSE <<Sign(n), 0>>
    ELSE LET g == GCD(Abs(n), Abs(d))
         IN  <<Sign(d) * (n \div g), Abs(d) \div g>>

Float(n) == <<n, 1>>

IsNaN(x) == x = NaN
IsInf(x) == x # NaN /\ x[2] = 0
IsFinite(x) == x # NaN /\ x[2] # 0

FAdd(a, b) ==
    IF IsNaN(a) \/ IsNaN(b) THEN NaN
    ELSE IF IsInf(a) /\ IsInf(b) THEN (IF a = b THEN a ELSE NaN)
    ELSE IF IsInf(a) THEN a
    ELSE IF IsInf(b) THEN b
    ELSE Frac(a[1] * b[2] + b[1] * a[2], a[2] * b[2])

FNeg(a) == IF IsNaN(a) THEN NaN ELSE <<-a[1], a[2]>>

FSub(a, b) == FAdd(a, FNeg(b))

FAbs(a) == IF IsNaN(a) THEN NaN ELSE <<Abs(a[1]), a[2]>>

FMul(a, b) ==
    IF IsNaN(a) \/ IsNaN(b) THEN NaN
    ELSE IF (IsInf(a) /\ b[1] = 0) \/ (IsInf(b) /\ a[1] = 0) THEN NaN
    ELSE Frac(a[1] * b[1], a[2] * b[2])

(* x / y: a finite non-zero value over zero is +-inf, 0/0 is NaN *)
FDiv(a, b) ==
    IF IsNaN(a) \/ IsNaN(b) THEN NaN
    ELSE IF IsInf(a) /\ IsInf(b) THEN NaN
    ELSE IF IsInf(b) THEN Float(0)
    ELSE IF IsInf(a) THEN <<a[1] * (IF b[1] < 0 THEN -1 ELSE 1), 0>>
    ELSE Frac(a[1] * b[2], a[2] * b[1])

FLess(a, b) == IsFinite(a) /\ IsFinite(b) /\ a[1] * b[2] < b[1] * a[2]

---------------------------------------------------------------------------
(* Text: characters, ordering, digits *)

(* The characters the model uses, in code-point order *)
CodePoints ==
    <<" ", "$", ",", "-", ".", "/", "0", "1", "2", "3", "4", "5", "6",
      "7", "8", "9", ":", "A", "B", "C", "D", "E", "F", "G", "H", "I",
      "J", "K", "L", "M", "N", "O", "P", "Q", "R", "S", "T", "U", "V",
      "W", "X", "Y", "Z", "_", "a", "b", "c", "d", "e", "f", "g", "h", "i",
      "j", "k", "l", "m", "n", "o", "p", "q", "r", "s", "t", "u", "v",
      "w", "x", "y", "z">>

OrdTable ==
    [c \in Range(CodePoints) |-> CHOOSE i \in 1..Len(CodePoints) : CodePoints[i] = c]

Ord(c) == OrdTable[c]

Digits == {"0", "1", "2", "3", "4", "5", "6", "7", "8", "9"}

DigitVal(c) == Ord(c) - Ord("0")

DigitChar(n) == CodePoints[Ord("0") + n]

(* Python's str ordering: by code point, a proper prefix first *)
RECURSIVE StrLess(_, _)
StrLess(a, b) ==
    IF b = <<>> THEN FALSE
    ELSE IF a = <<>> THEN TRUE
    ELSE IF Head(a) # Head(b) THEN Ord(Head(a)) < Ord(Head(b))
    ELSE StrLess(Tail(a), Tail(b))

(* str.lower() on the letters the model uses *)
Lower(c) ==
    IF Ord(c) >= Ord("A") /\ Ord(c) <= Ord("Z")
    THEN CodePoints[Ord(c) + (Ord("a") - Ord("A"))]
    ELSE c

LowerStr(s) == [i \in 1..Len(s) |-> Lower(s[i])]

(* The decimal numeral of n, zero-padded to the given width *)
RECURSIVE Numeral(_, _)
Numeral(n, width) ==
    IF width = 0 THEN <<>>
    ELSE Append(Numeral(n \div 10, width - 1), DigitChar(n % 10))

RECURSIVE NumeralVal(_)
NumeralVal(s) ==
    IF s = <<>> THEN 0
    ELSE 10 * NumeralVal(SubSeq(s, 1, Len(s) - 1)) + DigitVal(s[Len(s)])

---------------------------------------------------------------------------
(* Dates: Timestamp <<year, month, day>> *)

MonthNames == <<
    <<"J", "a", "n", "u", "a", "r", "y">>,
    <<"F", "e", "b", "r", "u", "a", "r", "y">>,
    <<"M", "a", "r", "c", "h">>,
    <<"A", "p", "r", "i", "l">>,
    <<"M", "a", "y">>,
    <<"J", "u", "n", "e">>,
    <<"J", "u", "l", "y">>,
    <<"A", "u", "g", "u", "s", "t">>,
    <<"S", "e", "p", "t", "e", "m", "b", "e", "r">>,
    <<"O", "c", "t", "o", "b", "e", "r">>,
    <<"N", "o", "v", "e", "m", "b", "e", "r">>,
    <<"D", "e", "c", "e", "m", "b", "e", "r">> >>

IsLeap(y) == (y % 4 = 0 /\ y % 100 # 0) \/ y % 400 = 0

DaysInMonth(y, m) ==
    IF m = 2 THEN (IF IsLeap(y) THEN 29 ELSE 28)
    ELSE IF m \in {4, 6, 9, 11} THEN 30 ELSE 31

DateLess(a, b) ==
    \/ a[1] < b[1]
    \/ a[1] = b[1] /\ a[2] < b[2]
    \/ a[1] = b[1] /\ a[2] = b[2] /\ a[3] < b[3]

DateLeq(a, b) == a = b \/ DateLess(a, b)

(* Timestamp.strftime('%B %Y') *)
StrftimeMonthYear(t) == MonthNames[t[2]] \o <<" ">> \o Numeral(t[1], 4)

(* Timestamp.strftime('%d.%m.%Y') *)
StrftimeDMY(t) ==
    Numeral(t[3], 2) \o <<".">> \o Numeral(t[2], 2) \o <<".">> \o Numeral(t[1], 4)

---------------------------------------------------------------------------
(* DataFrame helpers *)

Columns ==
    <<"Transaction Date", "Value Date", "Transaction Details", "Money Out",
      "Money In", "Ledger Balance", "Bank Reference Number">>

(* a function on 1..n as an evaluated tuple *)
AsTuple(f) == SubSeq(f, 1, Len(f))

Column(rows, c) == AsTuple([i \in 1..Len(rows) |-> rows[i][c]])

(* Series.sum(): NaN cells are skipped, an empty or all-NaN series sums to 0 *)
RECURSIVE SeriesSum(_)
SeriesSum(s) ==
    IF s = <<>> THEN Float(0)
    ELSE IF IsNaN(Head(s)) THEN SeriesSum(Tail(s))
    ELSE FAdd(Head(s), SeriesSum(Tail(s)))

(* Series.count() / notna().sum(): the number of non-null cells *)
RECURSIVE SeriesCount(_)
SeriesCount(s) ==
    IF s = <<>> THEN 0
    ELSE (IF IsNaN(Head(s)) THEN 0 ELSE 1) + SeriesCount(Tail(s))

RECURSIVE IntSum(_)
IntSum(s) == IF s = <<>> THEN 0 ELSE Head(s) + IntSum(Tail(s))

(* Series.max() / min(): NaN skipped, NaN for an all-NaN series *)
RECURSIVE SeriesMax(_)
SeriesMax(s) ==
    IF s = <<>> THEN NaN
    ELSE LET m == SeriesMax(Tail(s))
         IN  IF IsNaN(Head(s)) THEN m
             ELSE IF IsNaN(m) \/ FLess(m, Head(s)) THEN Head(s) ELSE m

RECURSIVE SeriesMin(_)
SeriesMin(s) ==
    IF s = <<>> THEN NaN
    ELSE LET m == SeriesMin(Tail(s))
         IN  IF IsNaN(Head(s)) THEN m
             ELSE IF IsNaN(m) \/ FLess(Head(s), m) THEN Head(s) ELSE m

(* Series.mean(): sum over count of the non-null cells, NaN when there are none *)
SeriesMean(s) ==
    IF SeriesCount(s) = 0 THEN NaN
    ELSE FDiv(SeriesSum(s), Float(SeriesCount(s)))

(* Series.cumsum() of a series without NaN *)
RECURSIVE Cumsum(_)
Cumsum(s) ==
    IF s = <<>> THEN <<>>
    ELSE LET init == Cumsum(SubSeq(s, 1, Len(s) - 1))
         IN  Append(init, IF init = <<>> THEN s[Len(s)]
                          ELSE FAdd(init[Len(init)], s[Len(s)]))

(* Series.pct_change(): self / self.shift(1) - 1, NaN in the first place *)
PctChange(s) ==
    [i \in 1..Len(s) |->
        IF i = 1 THEN NaN ELSE FSub(FDiv(s[i], s[i - 1]), Float(1))]

(* The keys of a groupby in the order pandas emits them (sort=True):
   ascending Timestamps, ascending str *)
RECURSIVE SortedDates(_)
SortedDates(S) ==
    IF S = {} THEN <<>>
    ELSE LET k == CHOOSE x \in S : \A y \in S : ~DateLess(y, x)
         IN  <<k>> \o SortedDates(S \ {k})

RECURSIVE SortedStrs(_)
SortedStrs(S) ==
    IF S = {} THEN <<>>
    ELSE LET k == CHOOSE x \in S : \A y \in S : ~StrLess(y, x)
         IN  <<k>> \o SortedStrs(S \ {k})

---------------------------------------------------------------------------
(* create_summary *)

(* df[col].iloc[i]: IndexError when the position is out of bounds *)
ILocRaises(rows) == Len(rows) = 0

create_summary(d) ==
    LET in == Column(d.rows, "Money In")
        out == Column(d.rows, "Money Out")
        dates == Column(d.rows, "Transaction Date")
    IN  [columns |-> <<"Metric", "Value">>,
         rows |-> <<
            <<"Total Money In", SeriesSum(in)>>,
            <<"Total Money Out", SeriesSum(out)>>,
            <<"Net Movement", FAdd(SeriesSum(in), SeriesSum(out))>>,
            <<"Number of Transactions", Len(d.rows)>>,
            <<"Number of Incoming Transactions", SeriesCount(in)>>,
            <<"Number of Outgoing Transactions", SeriesCount(out)>>,
            <<"Average Transaction In", SeriesMean(in)>>,
            <<"Average Transaction Out", SeriesMean(out)>>,
            <<"Largest Transaction In", SeriesMax(in)>>,
            <<"Largest Transaction Out", SeriesMin(out)>>,
            <<"First Transaction Date", dates[1]>>,
            <<"Last Transaction Date", dates[Len(dates)]>> >>]

---------------------------------------------------------------------------
(* create_daily_totals *)

(* pd.to_datetime on a column that already holds Timestamps returns it as is;
   the pipeline only calls the aggregators after process_pdf parsed the column *)
ToDatetimeColumn(d) == d

DailyColumns ==
    <<"Transaction Date", "Money In", "Money Out", "Transaction Details",
      "Net Movement">>

DailyGroup(rows, key) ==
    LET g == SelectSeq(rows, LAMBDA r : r["Transaction Date"] = key)
        in == SeriesSum(Column(g, "Money In"))
        out == SeriesSum(Column(g, "Money Out"))
    IN  [c \in Range(DailyColumns) |->
            CASE c = "Transaction Date" -> key
              [] c = "Money In" -> in
              [] c = "Money Out" -> out
              [] c = "Transaction Details" ->
                    SeriesCount(Column(g, "Transaction Details"))
              [] c = "Net Movement" -> FAdd(in, out)]

(* Returns the frame it built and the caller's frame as it left it *)
create_daily_totals(d) ==
    LET d1 == ToDatetimeColumn(d)
        keys == SortedDates(Range(Column(d1.rows, "Transaction Date")))
    IN  [df |-> d1,
         out |-> [columns |-> DailyColumns,
                  rows |-> [i \in 1..Len(keys) |-> DailyGroup(d1.rows, keys[i])]]]

---------------------------------------------------------------------------
(* create_monthly_totals *)

GRAND_TOTAL == <<"G", "R", "A", "N", "D", " ", "T", "O", "T", "A", "L">>

MonthlyColumns ==
    <<"Month", "Money In", "Money Out", "Transaction Details", "Net Movement",
      "Average Transaction Value", "Money In Growth %", "Money Out Growth %",
      "Transaction Count Growth %", "Running Total In", "Running Total Out",
      "Running Net Movement">>

(* df['Month'] = df['Transaction Date'].dt.strftime('%B %Y'): a column
   assignment on the caller's frame, appended when the name is new *)
AddMonthColumn(d) ==
    [columns |-> IF "Month" \in Range(d.columns) THEN d.columns
                 ELSE Append(d.columns, "Month"),
     rows |-> [i \in 1..Len(d.rows) |->
                 ("Month" :> StrftimeMonthYear(d.rows[i]["Transaction Date"]))
                    @@ d.rows[i]]]

(* df.groupby('Month'): the group keys, sorted as str *)
MonthGroupKeys(rows) == SortedStrs(Range(Column(rows, "Month")))

(* .agg({'Money In': 'sum', 'Money Out': 'sum', 'Transaction Details': 'count'}) *)
MonthlyAgg(rows, key) ==
    LET g == SelectSeq(rows, LAMBDA r : r["Month"] = key)
    IN  [in |-> SeriesSum(Column(g, "Money In")),
         out |-> SeriesSum(Column(g, "Money Out")),
         count |-> SeriesCount(Column(g, "Transaction Details"))]

(* The frame before the grand total is appended *)
MonthlyRows(rows) ==
    LET keys == MonthGroupKeys(rows)
        n == Len(keys)
        agg == AsTuple([i \in 1..n |-> MonthlyAgg(rows, keys[i])])
        in == AsTuple([i \in 1..n |-> agg[i].in])
        out == AsTuple([i \in 1..n |-> agg[i].out])
        cnt == AsTuple([i \in 1..n |-> Float(agg[i].count)])
        gin == PctChange(in)
        gout == PctChange(out)
        gcnt == PctChange(cnt)
        rin == Cumsum(in)
        rout == Cumsum(out)
    IN  [i \in 1..n |->
          [c \in Range(MonthlyColumns) |->
            CASE c = "Month" -> keys[i]
              [] c = "Money In" -> in[i]
              [] c = "Money Out" -> out[i]
              [] c = "Transaction Details" -> agg[i].count
              [] c = "Net Movement" -> FAdd(in[i], out[i])
              [] c = "Average Transaction Value" ->
                    FDiv(FAdd(in[i], FAbs(out[i])), cnt[i])
              [] c = "Money In Growth %" -> FMul(gin[i], Float(100))
              [] c = "Money Out Growth %" -> FMul(gout[i], Float(100))
              [] c = "Transaction Count Growth %" -> FMul(gcnt[i], Float(100))
              [] c = "Running Total In" -> rin[i]
              [] c = "Running Total Out" -> rout[i]
              [] c = "Running Net Movement" -> FAdd(rin[i], rout[i])]]

GrandTotalsSubtractingOut(m) ==
    LET in == SeriesSum(Column(m, "Money In"))
        out == SeriesSum(Column(m, "Money Out"))
        absout == SeriesSum([i \in 1..Len(m) |-> FAbs(m[i]["Money Out"])])
        cnt == IntSum(Column(m, "Transaction Details"))
        net == FSub(in, out)
    IN  [c \in Range(MonthlyColumns) |->
            CASE c = "Month" -> GRAND_TOTAL
              [] c = "Money In" -> in
              [] c = "Money Out" -> out
              [] c = "Transaction Details" -> cnt
              [] c = "Net Movement" -> net
              [] c = "Average Transaction Value" ->
                    FDiv(FAdd(in, absout), Float(cnt))
              [] c = "Money In Growth %" -> NaN
              [] c = "Money Out Growth %" -> NaN
              [] c = "Transaction Count Growth %" -> NaN
              [] c = "Running Total In" -> in
              [] c = "Running Total Out" -> out
              [] c = "Running Net Movement" -> net]

(* The GRAND TOTAL row built from the monthly frame *)
GrandTotals(m) ==
    LET in == SeriesSum(Column(m, "Money In"))
        out == SeriesSum(Column(m, "Money Out"))
        absout == SeriesSum([i \in 1..Len(m) |-> FAbs(m[i]["Money Out"])])
        cnt == IntSum(Column(m, "Transaction Details"))
        net == SeriesSum(Column(m, "Net Movement"))
    IN  [c \in Range(MonthlyColumns) |->
            CASE c = "Month" -> GRAND_TOTAL
              [] c = "Money In" -> in
              [] c = "Money Out" -> out
              [] c = "Transaction Details" -> cnt
              [] c = "Net Movement" -> net
              [] c = "Average Transaction Value" ->
                    FDiv(FAdd(in, absout), Float(cnt))
              [] c = "Money In Growth %" -> NaN
              [] c = "Money Out Growth %" -> NaN
              [] c = "Transaction Count Growth %" -> NaN
              [] c = "Running Total In" -> in
              [] c = "Running Total Out" -> out
              [] c = "Running Net Movement" -> net]

(* Returns the frame it built and the caller's frame as it left it *)
create_monthly_totals(d) ==
    LET d1 == AddMonthColumn(ToDatetimeColumn(d))
        m == MonthlyRows(d1.rows)
    IN  [df |-> d1,
         out |-> [columns |-> MonthlyColumns,
                  rows |-> m \o <<GrandTotals(m)>>]]

---------------------------------------------------------------------------
(* process_pdf *)

(* A raw table is [ncols |-> n, rows |-> tuple of n-tuples of cells]; a cell
   is text or NaN *)

TRANSACTION_DATE == <<"T", "r", "a", "n", "s", "a", "c", "t", "i", "o", "n", " ", "D", "a", "t", "e">>

(* re.search(r'\d{2}\.\d{2}\.\d{4}', s) starting at position i *)
DatePatternAt(s, i) ==
    /\ i + 9 <= Len(s)
    /\ \A k \in {0, 1, 3, 4, 6, 7, 8, 9} : s[i + k] \in Digits
    /\ s[i + 2] = "."
    /\ s[i + 5] = "."

(* Series.str.contains(pattern, na=False) for one cell *)
StrContainsDate(s) == s # NaN /\ \E i \in 1..Len(s) : DatePatternAt(s, i)

(* The .str accessor needs an object column: a column of a non-empty table
   whose cells are all NaN is float64 and raises AttributeError *)
StrAccessorRaises(t) ==
    Len(t.rows) > 0 /\ \A i \in 1..Len(t.rows) : t.rows[i][1] = NaN

(* table.columns = [7 names]: ValueError unless the table has 7 columns *)
SetColumnsRaises(t) == t.ncols # Len(Columns)

NamedRow(r) == [c \in Range(Columns) |->
                  r[CHOOSE k \in 1..Len(Columns) : Columns[k] = c]]

(* table.dropna(how='all') *)
DropNaAll(rows) == SelectSeq(rows, LAMBDA r : \E c \in DOMAIN r : r[c] # NaN)

(* the rows one retained table contributes *)
ProcessTable(t) ==
    SelectSeq(DropNaAll([i \in 1..Len(t.rows) |-> NamedRow(t.rows[i])]),
              LAMBDA r : StrContainsDate(r["Transaction Date"]))

(* the tables of the loop that pass len(table.columns) >= 6 *)
RetainedTables(tbls) == SelectSeq(tbls, LAMBDA t : t.ncols >= 6)

RECURSIVE Concat(_)
Concat(ss) == IF ss = <<>> THEN <<>> ELSE Head(ss) \o Concat(Tail(ss))

(* pd.to_datetime(cell, format='%d.%m.%Y') for one text cell: the whole cell
   must be day.month.year and name a calendar day, else ValueError *)
DateParses(s) ==
    /\ Len(s) = 10
    /\ DatePatternAt(s, 1)
    /\ LET d == NumeralVal(SubSeq(s, 1, 2))
           m == NumeralVal(SubSeq(s, 4, 5))
           y == NumeralVal(SubSeq(s, 7, 10))
       IN  /\ m \in 1..12
           /\ y \in 1678..2261
           /\ d \in 1..DaysInMonth(y, m)

ToDatetime(s) ==
    <<NumeralVal(SubSeq(s, 7, 10)), NumeralVal(SubSeq(s, 4, 5)),
      NumeralVal(SubSeq(s, 1, 2))>>

(* Series.replace('[\$,]', '', regex=True) for one cell *)
StripCurrency(s) == SelectSeq(s, LAMBDA c : c \notin {"$", ","})

(* pd.to_numeric(cell, errors='coerce') for one cell holding a plain decimal
   numeral (sign, digits, optional fraction); anything else the model draws
   is not a number and becomes NaN *)
ToNumeric(s) ==
    IF s = NaN THEN NaN
    ELSE LET neg == Head(s) = "-"
             body == IF Head(s) \in {"-", "+"} THEN Tail(s) ELSE s
             dots == {i \in 1..Len(body) : body[i] = "."}
             dot == IF dots = {} THEN Len(body) + 1 ELSE CHOOSE i \in dots : TRUE
             ip == SubSeq(body, 1, dot - 1)
             fp == SubSeq(body, dot + 1, Len(body))
         IN  IF \/ Cardinality(dots) > 1
                \/ Len(ip) + Len(fp) = 0
                \/ \E i \in 1..Len(body) : body[i] \notin Digits \cup {"."}
             THEN NaN
             ELSE Frac((IF neg THEN -1 ELSE 1)
                          * (NumeralVal(ip) * Pow10(Len(fp)) + NumeralVal(fp)),
                       Pow10(Len(fp)))

CleanMoney(r) ==
    [c \in DOMAIN r |->
        IF c \in {"Money Out", "Money In", "Ledger Balance"}
        THEN ToNumeric(StripCurrency(r[c]))
        ELSE r[c]]

(* final_df.sort_values('Transaction Date'): every ordering of the rows that
   is ascending by date (the default sort kind does not promise to keep the
   order of rows of one date) *)
SortValues(rows) ==
    {[i \in 1..Len(rows) |-> rows[p[i]]] : p \in
        {q \in Perms(Len(rows)) :
            \A i \in 1..(Len(rows) - 1) :
                DateLeq(rows[q[i]]["Transaction Date"],
                        rows[q[i + 1]]["Transaction Date"])}}

(* The outcomes of process_pdf for the tables tabula returned:
   [kind |-> "raise", exc |-> e], [kind |-> "none"] or
   [kind |-> "df", df |-> frame] *)
process_pdf(tbls) ==
    LET kept == RetainedTables(tbls)
        bad == \E i \in 1..Len(kept) :
                   SetColumnsRaises(kept[i]) \/ StrAccessorRaises(kept[i])
        cat == Concat([i \in 1..Len(kept) |-> ProcessTable(kept[i])])
        body == SelectSeq(cat,
                    LAMBDA r : r["Transaction Date"] # TRANSACTION_DATE)
        parsed == [i \in 1..Len(body) |->
                     [body[i] EXCEPT !["Transaction Date"] = ToDatetime(@)]]
    IN  IF bad
        THEN LET first == CHOOSE i \in 1..Len(kept) :
                     /\ SetColumnsRaises(kept[i]) \/ StrAccessorRaises(kept[i])
                     /\ \A j \in 1..(i - 1) :
                           ~(SetColumnsRaises(kept[j]) \/ StrAccessorRaises(kept[j]))
             IN  {[kind |-> "raise",
                   exc |-> IF SetColumnsRaises(kept[first])
                           THEN "ValueError: Length mismatch"
                           ELSE "AttributeError: .str accessor"]}
        ELSE IF kept = <<>> THEN {[kind |-> "none"]}
        ELSE IF \E i \in 1..Len(body) : ~DateParses(body[i]["Transaction Date"])
        THEN {[kind |-> "raise", exc |-> "ValueError: time data"]}
        ELSE {[kind |-> "df",
               df |-> [columns |-> Columns,
                       rows |-> [i \in 1..Len(srt) |-> CleanMoney(srt[i])]]] :
                 srt \in SortValues(parsed)}

---------------------------------------------------------------------------
(* Inputs the model draws *)

POS == <<"P", "O", "S">>
REF == <<"R", "E", "F", "1">>
D_15_03 == <<"1", "5", ".", "0", "3", ".", "2", "0", "2", "4">>
D_02_04 == <<"0", "2", ".", "0", "4", ".", "2", "0", "2", "4">>
D_31_02 == <<"3", "1", ".", "0", "2", ".", "2", "0", "2", "4">>
AS_AT == <<"A", "s", " ", "a", "t", " ", "1", "5", ".", "0", "3", ".", "2", "0", "2", "4">>
TOTAL == <<"T", "o", "t", "a", "l">>
AMOUNT_IN == <<"$", "1", ",", "2", "3", "4", ".", "5", "6">>
AMOUNT_OUT == <<"-", "5", ".", "0", "0">>
NOT_A_NUMBER == <<"n", "/", "a">>

(* Ledger rows for the aggregators: what process_pdf can return, drawn directly *)
LedgerDates == {<<2024, 2, 10>>, <<2024, 3, 15>>, <<2024, 3, 20>>, <<2024, 4, 2>>}

LedgerRow(date, details, out, in) ==
    [c \in Range(Columns) |->
        CASE c = "Transaction Date" -> date
          [] c = "Value Date" -> StrftimeDMY(date)
          [] c = "Transaction Details" -> details
          [] c = "Money Out" -> out
          [] c = "Money In" -> in
          [] c = "Ledger Balance" -> Float(100)
          [] c = "Bank Reference Number" -> REF]

(* details, money out, money in of a row: incoming, outgoing, neither amount
   readable, and the first two without a details cell *)
LedgerCells ==
    {<<POS, NaN, Float(10)>>, <<POS, Float(-5), NaN>>, <<POS, NaN, NaN>>,
     <<NaN, NaN, Float(30)>>, <<NaN, Float(-5), NaN>>}

LedgerRows ==
    {LedgerRow(date, c[1], c[2], c[3]) : date \in LedgerDates, c \in LedgerCells}

(* a ledger is ascending by date, as sort_values leaves it *)
IsSortedByDate(rows) ==
    \A i \in 1..(Len(rows) - 1) :
        DateLeq(rows[i]["Transaction Date"], rows[i + 1]["Transaction Date"])

(* Raw tables as tabula returns them: cells of the seven statement columns,
   cut or padded to the table's column count *)
RawRow(date, out, in) == <<date, D_15_03, POS, out, in, AMOUNT_IN, REF>>

EmptyRow == [k \in 1..Len(Columns) |-> NaN]

Fit(row, n) == [k \in 1..n |-> IF k <= Len(row) THEN row[k] ELSE NaN]

(* the document that holds the rows rs as consecutive tables of sizes sz and
   column counts cs *)
RECURSIVE IntSumTo(_, _)
IntSumTo(f, n) == IF n = 0 THEN 0 ELSE f[n] + IntSumTo(f, n - 1)

MakeDoc(rs, sz, cs) ==
    [i \in 1..Len(sz) |->
        [ncols |-> cs[i],
         rows |-> [k \in 1..sz[i] |-> Fit(rs[IntSumTo(sz, i - 1) + k], cs[i])]]]

(* how at most MaxTables non-empty tables share k rows *)
TableSizes(k) ==
    UNION {{sz \in [1..t -> 1..MaxRows] : IntSumTo(sz, t) = k} : t \in 0..MaxTables}

(* documents for the checks of process_pdf alone *)
PdfRows ==
    {EmptyRow} \cup
    {RawRow(date, out, in) :
        date \in {D_15_03, D_02_04, TRANSACTION_DATE, AS_AT, D_31_02, TOTAL, NaN},
        out \in {NaN, AMOUNT_OUT, NOT_A_NUMBER},
        in \in {NaN, AMOUNT_IN, NOT_A_NUMBER}}

PdfColumnCounts == {5, 6, 7, 8}

(* documents for the checks of the whole request *)
UploadRows ==
    {RawRow(D_15_03, NaN, AMOUNT_IN), RawRow(D_15_03, AMOUNT_OUT, NaN),
     RawRow(D_02_04, AMOUNT_OUT, NaN), RawRow(AS_AT, NaN, NaN)}

UploadColumnCounts == {5, 6, 7}

FileNames == {<<>>, <<"a", ".", "p", "d", "f">>, <<"B", ".", "P", "D", "F">>, <<"a", ".", "t", "x", "t">>}

---------------------------------------------------------------------------
(* upload_file: names and paths *)

UPLOAD_FOLDER == <<"u", "p", "l", "o", "a", "d", "s">>
ALLOWED_EXTENSIONS == {<<"p", "d", "f">>}
XLSX == <<".", "x", "l", "s", "x">>

(* s.rsplit('.', 1): position of the last dot, 0 when there is none *)
LastDot(s) ==
    IF "." \in Range(s)
    THEN CHOOSE i \in 1..Len(s) :
            s[i] = "." /\ \A j \in (i + 1)..Len(s) : s[j] # "."
    ELSE 0

allowed_file(filename) ==
    /\ "." \in Range(filename)
    /\ LowerStr(SubSeq(filename, LastDot(filename) + 1, Len(filename)))
          \in ALLOWED_EXTENSIONS

RECURSIVE StripDots(_)
StripDots(s) ==
    IF s = <<>> THEN s
    ELSE IF Head(s) \in {".", "_"} THEN StripDots(Tail(s))
    ELSE IF s[Len(s)] \in {".", "_"} THEN StripDots(SubSeq(s, 1, Len(s) - 1))
    ELSE s

(* werkzeug's secure_filename on a name without white space or separators:
   keep [A-Za-z0-9_.-], then strip leading and trailing '.' and '_' *)
secure_filename(s) ==
    StripDots(SelectSeq(s, LAMBDA c :
        \/ c \in Digits \cup {"_", ".", "-"}
        \/ Ord(c) >= Ord("A") /\ Ord(c) <= Ord("Z")
        \/ Ord(c) >= Ord("a") /\ Ord(c) <= Ord("z")))

PdfPath(name) == UPLOAD_FOLDER \o <<"/">> \o secure_filename(name)

ExcelFilename(name) ==
    LET f == secure_filename(name)
    IN  (IF LastDot(f) = 0 THEN f ELSE SubSeq(f, 1, LastDot(f) - 1)) \o XLSX

ExcelPath(name) == UPLOAD_FOLDER \o <<"/">> \o ExcelFilename(name)

pdf_path == PdfPath(request.filename)
excel_path == ExcelPath(request.filename)

FinallyCleanupSkipped(files, path) == files

(* the finally clause: if os.path.exists(pdf_path): os.remove(pdf_path) *)
FinallyCleanup(files, path) == IF path \in files THEN files \ {path} ELSE files

(* df['Transaction Date'] = df['Transaction Date'].dt.strftime('%d.%m.%Y') *)
FormatDateColumn(d) ==
    [d EXCEPT !.rows = [i \in 1..Len(d.rows) |->
        [d.rows[i] EXCEPT !["Transaction Date"] = StrftimeDMY(@)]]]

UNCAUGHT == "uncaught exception"
NO_TABLES == "Error processing PDF - No valid tables found"
ERROR_PROCESSING == "Error processing PDF: <str(e)>"
DOWNLOAD == "send_file download"

---------------------------------------------------------------------------
(* upload_file, one action per step of the handler *)

pipeline == <<df, ledger0, summary_df, daily_totals_df, monthly_totals_df, sheets>>

Init ==
    /\ pc = "idle"
    /\ request = [has_file |-> FALSE, filename |-> <<>>]
    /\ tables = <<>>
    /\ df = NaN
    /\ ledger0 = NaN
    /\ summary_df = NaN
    /\ daily_totals_df = NaN
    /\ monthly_totals_df = NaN
    /\ sheets = NaN
    /\ fs = {}
    /\ staged = FALSE
    /\ exc = "none"
    /\ response = "none"

(* lines 288-296: the request arrives; the checks before anything is staged.
   The uploaded bytes decide what tabula will later extract. *)
Upload ==
    /\ pc = "idle"
    /\ \E has_file \in BOOLEAN, filename \in FileNames, k \in 0..MaxRows :
       \E rs \in [1..k -> UploadRows], sz \in TableSizes(k) :
       \E cs \in [1..Len(sz) -> UploadColumnCounts] :
       LET content == MakeDoc(rs, sz, cs)
       IN
        /\ request' = [has_file |-> has_file, filename |-> filename]
        /\ IF ~has_file
           THEN pc' = "done" /\ response' = "No file part" /\ tables' = tables
           ELSE IF filename = <<>>
           THEN pc' = "done" /\ response' = "No selected file" /\ tables' = tables
           ELSE IF allowed_file(filename)
           THEN pc' = "save" /\ response' = response /\ tables' = content
           ELSE pc' = "done" /\ response' = "Invalid file type" /\ tables' = tables
    /\ UNCHANGED <<pipeline, fs, staged, exc>>

(* line 297: file.save(pdf_path), outside the try block: a failure leaves
   upload_file as an exception, with or without a partly written file *)
Save ==
    /\ pc = "save"
    /\ \E ok \in BOOLEAN, partial \in BOOLEAN :
        IF ok
        THEN /\ fs' = fs \cup {pdf_path}
             /\ staged' = TRUE
             /\ pc' = "process_pdf"
             /\ response' = response
        ELSE /\ fs' = IF partial THEN fs \cup {pdf_path} ELSE fs
             /\ staged' = FALSE
             /\ pc' = "done"
             /\ response' = UNCAUGHT
    /\ UNCHANGED <<request, tables, pipeline, exc>>

(* line 301: tabula.read_pdf may fail; otherwise process_pdf runs on its tables *)
ProcessPdf ==
    /\ pc = "process_pdf"
    /\ \E extracted \in BOOLEAN, res \in process_pdf(tables) :
        IF ~extracted
        THEN /\ pc' = "except"
             /\ exc' = "tabula error"
             /\ UNCHANGED <<df, ledger0, response>>
        ELSE IF res.kind = "raise"
        THEN /\ pc' = "except"
             /\ exc' = res.exc
             /\ UNCHANGED <<df, ledger0, response>>
        ELSE IF res.kind = "none"
        THEN /\ pc' = "finally"
             /\ response' = NO_TABLES
             /\ UNCHANGED <<df, ledger0, exc>>
        ELSE /\ pc' = "create_summary"
             /\ df' = res.df
             /\ ledger0' = res.df
             /\ UNCHANGED <<exc, response>>
    /\ UNCHANGED <<request, tables, summary_df, daily_totals_df,
                   monthly_totals_df, sheets, fs, staged>>

(* line 305 *)
CreateSummary ==
    /\ pc = "create_summary"
    /\ IF ILocRaises(df.rows)
       THEN pc' = "except" /\ exc' = "IndexError" /\ summary_df' = summary_df
       ELSE pc' = "create_daily_totals" /\ exc' = exc
            /\ summary_df' = create_summary(df)
    /\ UNCHANGED <<request, tables, df, ledger0, daily_totals_df,
                   monthly_totals_df, sheets, fs, staged, response>>

(* line 306 *)
CreateDailyTotals ==
    /\ pc = "create_daily_totals"
    /\ LET r == create_daily_totals(df)
       IN  df' = r.df /\ daily_totals_df' = r.out
    /\ pc' = "create_monthly_totals"
    /\ UNCHANGED <<request, tables, ledger0, summary_df, monthly_totals_df,
                   sheets, fs, staged, exc, response>>

(* line 307 *)
CreateMonthlyTotals ==
    /\ pc = "create_monthly_totals"
    /\ LET r == create_monthly_totals(df)
       IN  df' = r.df /\ monthly_totals_df' = r.out
    /\ pc' = "strftime"
    /\ UNCHANGED <<request, tables, ledger0, summary_df, daily_totals_df,
                   sheets, fs, staged, exc, response>>

(* line 310 *)
FormatDates ==
    /\ pc = "strftime"
    /\ df' = FormatDateColumn(df)
    /\ pc' = "to_excel"
    /\ UNCHANGED <<request, tables, ledger0, summary_df, daily_totals_df,
                   monthly_totals_df, sheets, fs, staged, exc, response>>

(* lines 313-329: the four sheets are written and the writer closed; the
   spreadsheet library may fail, with or without a file left behind *)
WriteExcel ==
    /\ pc = "to_excel"
    /\ \E ok \in BOOLEAN, partial \in BOOLEAN :
        IF ok
        THEN /\ sheets' = [n \in {"Transactions", "Summary", "Daily Totals",
                                  "Monthly Analysis"} |->
                             CASE n = "Transactions" -> df
                               [] n = "Summary" -> summary_df
                               [] n = "Daily Totals" -> daily_totals_df
                               [] n = "Monthly Analysis" -> monthly_totals_df]
             /\ fs' = fs \cup {excel_path}
             /\ pc' = "remove"
             /\ exc' = exc
        ELSE /\ sheets' = sheets
             /\ fs' = IF partial THEN fs \cup {excel_path} ELSE fs
             /\ pc' = "except"
             /\ exc' = "xlsxwriter error"
    /\ UNCHANGED <<request, tables, df, ledger0, summary_df, daily_totals_df,
                   monthly_totals_df, staged, response>>

(* line 332: os.remove(pdf_path) *)
RemovePdf ==
    /\ pc = "remove"
    /\ IF pdf_path \in fs
       THEN fs' = fs \ {pdf_path} /\ pc' = "send_file" /\ exc' = exc
       ELSE fs' = fs /\ pc' = "except" /\ exc' = "FileNotFoundError"
    /\ UNCHANGED <<request, tables, pipeline, staged, response>>

(* lines 335-338: return send_file(...), which may fail *)
SendFile ==
    /\ pc = "send_file"
    /\ \E ok \in BOOLEAN :
        IF ok
        THEN pc' = "finally" /\ response' = DOWNLOAD /\ exc' = exc
        ELSE pc' = "except" /\ response' = response /\ exc' = "send_file error"
    /\ UNCHANGED <<request, tables, pipeline, fs, staged>>

(* lines 341-342: except Exception as e: return f'Error processing PDF: ...' *)
Except ==
    /\ pc = "except"
    /\ response' = ERROR_PROCESSING
    /\ pc' = "finally"
    /\ UNCHANGED <<request, tables, pipeline, fs, staged, exc>>

(* lines 343-346: the finally clause, then the return value goes out *)
Finally ==
    /\ pc = "finally"
    /\ fs' = FinallyCleanup(fs, pdf_path)
    /\ pc' = "done"
    /\ UNCHANGED <<request, tables, pipeline, staged, exc, response>>

Next ==
    \/ Upload
    \/ Save
    \/ ProcessPdf
    \/ CreateSummary
    \/ CreateDailyTotals
    \/ CreateMonthlyTotals
    \/ FormatDates
    \/ WriteExcel
    \/ RemovePdf
    \/ SendFile
    \/ Except
    \/ Finally

Spec == Init /\ [][Next]_vars

---------------------------------------------------------------------------
(* process_pdf alone, on every document of the bounded set *)

InitPdf ==
    /\ pc = "process_pdf"
    /\ request = [has_file |-> TRUE, filename |-> <<"a", ".", "p", "d", "f">>]
    /\ \E k \in 0..MaxRows :
       \E rs \in [1..k -> PdfRows], sz \in TableSizes(k) :
       \E cs \in [1..Len(sz) -> PdfColumnCounts] :
          tables = MakeDoc(rs, sz, cs)
    /\ df = NaN
    /\ ledger0 = NaN
    /\ summary_df = NaN
    /\ daily_totals_df = NaN
    /\ monthly_totals_df = NaN
    /\ sheets = NaN
    /\ fs = {pdf_path}
    /\ staged = TRUE
    /\ exc = "none"
    /\ response = "none"

NextPdf == ProcessPdf

SpecPdf == InitPdf /\ [][NextPdf]_vars

---------------------------------------------------------------------------
(* the aggregators alone, on every ledger of the bounded set *)

InitAgg ==
    /\ pc = "create_summary"
    /\ request = [has_file |-> TRUE, filename |-> <<"a", ".", "p", "d", "f">>]
    /\ tables = <<>>
    /\ \E n \in 0..MaxLedger :
       \E rows \in [1..n -> LedgerRows] :
          /\ IsSortedByDate(rows)
          /\ df = [columns |-> Columns, rows |-> rows]
    /\ ledger0 = df
    /\ summary_df = NaN
    /\ daily_totals_df = NaN
    /\ monthly_totals_df = NaN
    /\ sheets = NaN
    /\ fs = {pdf_path}
    /\ staged = TRUE
    /\ exc = "none"
    /\ response = "none"

NextAgg ==
    \/ CreateSummary
    \/ CreateDailyTotals
    \/ CreateMonthlyTotals

SpecAgg == InitAgg /\ [][NextAgg]_vars

---------------------------------------------------------------------------
(* Properties of upload_file *)

(* C1: whenever upload_file has staged the uploaded PDF and has finished, on
   whichever path (download, 'no valid tables found', or a failure raised
   while processing, writing or sending), the staged file is gone. *)
C1_StagedFileRemoved == (pc = "done" /\ staged) => pdf_path \notin fs

(* a request that staged its PDF, failed while the workbook was written and
   has finished *)
C1_Witness ==
    /\ pc = "done"
    /\ staged
    /\ exc = "xlsxwriter error"
    /\ response = ERROR_PROCESSING

(* C2: no failure inside upload_file, staging the upload included, leaves the
   handler as an exception: every finished request carries a response string
   or a download. *)
C2_NoExceptionEscapes == pc = "done" => response # UNCAUGHT

(* C8: the ledger process_pdf returned reaches the Transactions sheet with
   its seven columns, its rows and its cells as constructed, the transaction
   date re-formatted and nothing else changed. *)
C8_LedgerOnlyReformatted ==
    pc = "remove" =>
        LET written == sheets["Transactions"]
        IN  /\ written.columns = Columns
            /\ Len(written.rows) = Len(ledger0.rows)
            /\ \A i \in 1..Len(written.rows) :
                /\ DOMAIN written.rows[i] = Range(Columns)
                /\ \A c \in Range(Columns) \ {"Transaction Date"} :
                      written.rows[i][c] = ledger0.rows[i][c]
                /\ written.rows[i]["Transaction Date"]
                      = StrftimeDMY(ledger0.rows[i]["Transaction Date"])

---------------------------------------------------------------------------
(* Properties of the aggregators *)

(* the values of a series in order of first occurrence *)
RECURSIVE FirstOccurrences(_)
FirstOccurrences(s) ==
    IF s = <<>> THEN <<>>
    ELSE LET init == FirstOccurrences(SubSeq(s, 1, Len(s) - 1))
         IN  IF s[Len(s)] \in Range(init) THEN init ELSE Append(init, s[Len(s)])

(* the monthly frame without its trailing GRAND TOTAL row *)
MonthRows == SubSeq(monthly_totals_df.rows, 1, Len(monthly_totals_df.rows) - 1)

(* C3: for a ledger spanning two or more calendar months the monthly rows
   come in chronological order, the order in which the months first occur in
   the date-sorted ledger. *)
C3_MonthsChronological ==
    pc = "strftime" =>
        LET labels == FirstOccurrences(
                [i \in 1..Len(ledger0.rows) |->
                    StrftimeMonthYear(ledger0.rows[i]["Transaction Date"])])
        IN  Len(labels) >= 2 =>
                [i \in 1..Len(MonthRows) |-> MonthRows[i]["Month"]] = labels

GrowthColumns ==
    {<<"Money In", "Money In Growth %">>,
     <<"Money Out", "Money Out Growth %">>,
     <<"Transaction Details", "Transaction Count Growth %">>}

(* a cell of a value column as a float (the count column holds integers) *)
AsFloat(row, c) == IF c = "Transaction Details" THEN Float(row[c]) ELSE row[c]

(* C4: the first monthly row has null growth in all three columns; every
   later monthly row's growth is (current - previous) / previous * 100, or
   null when the previous row's value is zero. *)
C4_GrowthFormula ==
    pc = "strftime" =>
        \A i \in 1..Len(MonthRows) : \A g \in GrowthColumns :
            LET growth == MonthRows[i][g[2]]
            IN  IF i = 1 THEN growth = NaN
                ELSE LET cur == AsFloat(MonthRows[i], g[1])
                         prev == AsFloat(MonthRows[i - 1], g[1])
                     IN  IF prev = Float(0) THEN growth = NaN
                         ELSE growth = FMul(FDiv(FSub(cur, prev), prev), Float(100))

(* C5: the daily frame has one row per distinct transaction date, ascending,
   and its per-day counts add up to the number of ledger rows, rows without a
   details cell included. *)
C5_DailyRowsAndCounts ==
    pc \in {"create_monthly_totals", "strftime"} =>
        LET days == daily_totals_df.rows
            dates == {ledger0.rows[i]["Transaction Date"] :
                        i \in 1..Len(ledger0.rows)}
        IN  /\ Len(days) = Cardinality(dates)
            /\ {days[i]["Transaction Date"] : i \in 1..Len(days)} = dates
            /\ \A i \in 1..(Len(days) - 1) :
                  DateLess(days[i]["Transaction Date"],
                           days[i + 1]["Transaction Date"])
            /\ IntSum([i \in 1..Len(days) |-> days[i]["Transaction Details"]])
                  = Len(ledger0.rows)

(* the sum of a float column, added from the last row backwards *)
RECURSIVE ColumnTotal(_, _)
ColumnTotal(rows, c) ==
    IF rows = <<>> THEN Float(0)
    ELSE FAdd(ColumnTotal(SubSeq(rows, 1, Len(rows) - 1), c),
              AsFloat(rows[Len(rows)], c))

(* C10: the GRAND TOTAL row is the last row and the only one of that name;
   its money-in, money-out, count and net-movement cells are the column sums
   over the monthly rows, its growth cells are null, and its running totals
   are those of the last monthly row. *)
C10_GrandTotalRow ==
    pc = "strftime" =>
        LET n == Len(monthly_totals_df.rows)
            gt == monthly_totals_df.rows[n]
        IN  /\ n >= 2
            /\ gt["Month"] = GRAND_TOTAL
            /\ \A i \in 1..Len(MonthRows) : MonthRows[i]["Month"] # GRAND_TOTAL
            /\ \A c \in {"Money In", "Money Out", "Transaction Details",
                         "Net Movement"} :
                  AsFloat(gt, c) = ColumnTotal(MonthRows, c)
            /\ \A g \in GrowthColumns : gt[g[2]] = NaN
            /\ \A c \in {"Running Total In", "Running Total Out",
                         "Running Net Movement"} :
                  gt[c] = MonthRows[n - 1][c]

(* a monthly frame of three months and the total, with money both ways *)
C10_Witness ==
    /\ pc = "strftime"
    /\ Len(monthly_totals_df.rows) = 4
    /\ monthly_totals_df.rows[4]["Money In"] # Float(0)
    /\ monthly_totals_df.rows[4]["Money Out"] # Float(0)

---------------------------------------------------------------------------
(* Properties of process_pdf *)

(* a cell that is exactly DD.MM.YYYY *)
ExactDateForm(s) == s # NaN /\ Len(s) = 10 /\ DatePatternAt(s, 1)

(* process_pdf ran on what tabula extracted *)
ProcessPdfRan == pc # "process_pdf" /\ exc # "tabula error"

(* the raw rows of the tables with at least six columns whose date cell is
   exactly DD.MM.YYYY *)
DatedRawRows ==
    Concat([i \in 1..Len(tables) |->
        IF tables[i].ncols >= 6
        THEN SelectSeq(tables[i].rows, LAMBDA r : ExactDateForm(r[1]))
        ELSE <<>>])

(* every date cell that is exactly DD.MM.YYYY names a calendar day, and no
   table's date column is empty throughout *)
DatesWellFormed ==
    \A i \in 1..Len(tables) :
        /\ \E k \in 1..Len(tables[i].rows) : tables[i].rows[k][1] # NaN
        /\ \A k \in 1..Len(tables[i].rows) :
              ExactDateForm(tables[i].rows[k][1]) =>
                  DateParses(tables[i].rows[k][1])

(* C6: of seven-column tables, every row whose date cell is not exactly
   DD.MM.YYYY (the repeated header, a cell that only contains such a date) is
   left out, and the other rows are returned as the ledger. *)
C6_NonDateRowsExcluded ==
    ( /\ ProcessPdfRan
      /\ tables # <<>>
      /\ \A i \in 1..Len(tables) : tables[i].ncols = 7
      /\ DatesWellFormed )
    => /\ pc = "create_summary"
       /\ Len(df.rows) = Len(DatedRawRows)
       /\ \A i \in 1..Len(df.rows) :
            \E k \in 1..Len(DatedRawRows) :
                df.rows[i]["Transaction Date"] = ToDatetime(DatedRawRows[k][1])

(* C7: tables of fewer than six columns are discarded, every table of at
   least six columns gets the seven-column schema and contributes its dated
   rows to the ledger, and the absent result comes back exactly when no table
   has at least six columns. *)
C7_ColumnCountFilter ==
    ( /\ ProcessPdfRan
      /\ DatesWellFormed
      /\ \A i \in 1..Len(tables) : \A k \in 1..Len(tables[i].rows) :
            StrContainsDate(tables[i].rows[k][1]) =>
                ExactDateForm(tables[i].rows[k][1]) )
    => IF \A i \in 1..Len(tables) : tables[i].ncols < 6
       THEN pc = "finally" /\ response = NO_TABLES
       ELSE /\ pc = "create_summary"
            /\ df.columns = Columns
            /\ Len(df.rows) = Len(DatedRawRows)

(* C9: every row of the ledger process_pdf returns has a money-in or a
   money-out value after cleaning. *)
C9_SomeAmountPresent ==
    pc = "create_summary" =>
        \A i \in 1..Len(df.rows) :
            df.rows[i]["Money In"] # NaN \/ df.rows[i]["Money Out"] # NaN

===========================================================================
